---- MODULE Spec2Model ----
(***************************************************************************)
(* Model of the flutter_network_watcher desktop plugin shims.              *)
(*                                                                         *)
(*   linux/flutter_network_watcher_plugin.cc                               *)
(*   windows/flutter_network_watcher_plugin.{h,cpp}                        *)
(*   windows/flutter_network_watcher_plugin_c_api.cpp                      *)
(*                                                                         *)
(* One behaviour is one build of the plugin (the variable `platform`)      *)
(* running on the host framework's platform thread.  The host side that    *)
(* the shim talks to is modelled by what the shim could change in it: the  *)
(* set of channels that carry a method-call handler, the plugin instances  *)
(* handed to the registrar, and (Windows) the registrar manager's map from *)
(* raw registrar references to registrar wrappers.                         *)
(*                                                                         *)
(* The handler functions are exercised in two ways: the host sends a call  *)
(* on the plugin's channel and dispatches it to whatever handler is        *)
(* installed there (HostSend, HostDispatch), and the handler entry point   *)
(* is invoked directly with a call record and its reply sink (Invoke).     *)
(* Neither handler reads its self / this argument.                         *)
(***************************************************************************)
EXTENDS Integers, Sequences, FiniteSets, TLC

(* ----------------------------- bounds ---------------------------------- *)
\* number of registrations in one behaviour
MaxRegs == 2
\* number of method calls in one behaviour
MaxCalls == 2

(* ----------------------------- inputs ---------------------------------- *)
Platforms == {"linux", "windows"}
\* registrar handles (FlPluginRegistrar*, PluginRegistrarWindows*,
\* FlutterDesktopPluginRegistrarRef) the host may pass
Registrars == {1, 2}
\* the calls the host makes: method name and argument payload
CallInputs ==
  { [method |-> "getStatus", args |-> "none"],
    [method |-> "subscribe", args |-> "interval5"],
    [method |-> "", args |-> "none"] }
\* the channel the host uses for this plugin (the package name)
PluginChannel == "flutter_network_watcher"
\* the registrar manager has no wrapper for a reference yet
NoWrapper == 0

VARIABLES
  platform,  \* which variant was built: "linux" or "windows"
  shim,      \* what the shim has created or retained (see InitShim)
  log,       \* every operation so far, in order, with each call's sink
  pc,        \* position of the platform thread inside the shim
  cur,       \* index in log of the call being handled, 0 when none
  wrappers,  \* Windows registrar manager: raw reference -> wrapper
  capiLog    \* history of the C-API entry point: reference and wrapper

vars == <<platform, shim, log, pc, cur, wrappers, capiLog>>

(* --------------------------- shim state -------------------------------- *)
\* channels : channels on which the shim installed a method-call handler
\* plugins  : shim instances handed to (owned by) the host registrar
\* instances: shim instances that exist
\* retained : registrar handles the shim kept
InitShim ==
  [channels |-> {}, plugins |-> {}, instances |-> {}, retained |-> {}]

\* the usual plugin template: make a channel, an instance, hand it over
Register_creates_channel(s, registrar) ==
  [s EXCEPT !.channels = @ \cup {PluginChannel},
            !.instances = @ \cup {Cardinality(s.instances) + 1},
            !.plugins = @ \cup {Cardinality(s.instances) + 1}]

\* keeps the registrar handle
Register_retains_handle(s, registrar) ==
  [s EXCEPT !.retained = @ \cup {registrar}]

\* makes a fresh handler on every call
Register_duplicates(s, registrar) ==
  [s EXCEPT !.channels = @ \cup {PluginChannel},
            !.retained = @ \cup {registrar}]

\* constructs an instance and never hands it to the registrar
Register_leaks_instance(s, registrar) ==
  [s EXCEPT !.instances = @ \cup {Cardinality(s.instances) + 1}]

\* linux: empty body
flutter_network_watcher_plugin_register_with_registrar(s, registrar) == s

\* windows: empty body
RegisterWithRegistrar(s, registrar) == s

RegisterOf(p, s, registrar) ==
  IF p = "linux"
    THEN flutter_network_watcher_plugin_register_with_registrar(s, registrar)
    ELSE RegisterWithRegistrar(s, registrar)

(* ------------------------------ calls ---------------------------------- *)
\* One log entry.  A register entry uses handle and via; a call entry uses
\* method, args, via, state, writes (what was written to its reply sink,
\* in order), sinkResult (what the sink reported) and outcome (what the
\* handler reported to its caller).
RegEntry(h, v) ==
  [kind |-> "register", handle |-> h, via |-> v, method |-> "",
   args |-> "none", state |-> "done", writes |-> <<>>,
   sinkResult |-> "none", outcome |-> "returned"]

CallEntry(m, a, v, st) ==
  [kind |-> "call", handle |-> 0, via |-> v, method |-> m,
   args |-> a, state |-> st, writes |-> <<>>,
   sinkResult |-> "none", outcome |-> "none"]

\* what the reply sink can report for one write: the Linux call returns a
\* gboolean and a GError, the Windows call returns void
SinkOutcomes(p) == IF p = "linux" THEN {TRUE, FALSE} ELSE {TRUE}

\* fl_method_call_respond_not_implemented(method_call, nullptr)
fl_method_call_respond_not_implemented(call, ok) ==
  [call EXCEPT !.writes = Append(@, "NotImplemented"),
               !.sinkResult = IF ok THEN "ok" ELSE "failed"]

\* result->NotImplemented()
NotImplemented(call, ok) ==
  [call EXCEPT !.writes = Append(@, "NotImplemented"),
               !.sinkResult = IF ok THEN "ok" ELSE "failed"]

\* answers with a success result
Handle_responds_success(call, ok) ==
  [call EXCEPT !.writes = Append(@, "Success"),
               !.sinkResult = IF ok THEN "ok" ELSE "failed",
               !.state = "returned", !.outcome = "returned"]

\* leaves the response to later work
Handle_defers(call, ok) ==
  [call EXCEPT !.state = "returned", !.outcome = "returned"]

\* hands the sink's failure on to the caller
Handle_propagates(call, ok) ==
  [fl_method_call_respond_not_implemented(call, ok)
     EXCEPT !.state = "returned",
            !.outcome = IF ok THEN "returned" ELSE "error"]

\* answers, then answers again
Handle_twice(call, ok) ==
  [NotImplemented(NotImplemented(call, ok), ok)
     EXCEPT !.state = "returned", !.outcome = "returned"]

\* linux: the result and the error of the respond call are discarded
flutter_network_watcher_plugin_handle_method_call(call, ok) ==
  [fl_method_call_respond_not_implemented(call, ok)
     EXCEPT !.state = "returned", !.outcome = "returned"]

\* windows
HandleMethodCall(call, ok) ==
  [NotImplemented(call, ok)
     EXCEPT !.state = "returned", !.outcome = "returned"]

HandlerOf(p, call, ok) ==
  IF p = "linux"
    THEN flutter_network_watcher_plugin_handle_method_call(call, ok)
    ELSE HandleMethodCall(call, ok)

\* where the platform thread stands when a call enters the shim: Linux
\* enters through method_call_cb, Windows enters the member function
EntryPc(p) == IF p = "linux" THEN "cb" ELSE "handle"

(* ------------------------------ state ---------------------------------- *)
Regs == {i \in 1..Len(log) : log[i].kind = "register"}
Calls == {i \in 1..Len(log) : log[i].kind = "call"}

Init ==
  /\ platform \in Platforms
  /\ shim = InitShim
  /\ log = <<>>
  /\ pc = "idle"
  /\ cur = 0
  /\ wrappers = [r \in Registrars |-> NoWrapper]
  /\ capiLog = <<>>

(* ----------------------------- actions --------------------------------- *)
\* the host calls flutter_network_watcher_plugin_register_with_registrar
LinuxRegister(registrar) ==
  /\ platform = "linux"
  /\ pc = "idle"
  /\ Cardinality(Regs) < MaxRegs
  /\ shim' = flutter_network_watcher_plugin_register_with_registrar(
               shim, registrar)
  /\ log' = Append(log, RegEntry(registrar, "direct"))
  /\ UNCHANGED <<platform, pc, cur, wrappers, capiLog>>

\* FlutterNetworkWatcherPlugin::RegisterWithRegistrar called with a wrapper
WindowsRegister(registrar) ==
  /\ platform = "windows"
  /\ pc = "idle"
  /\ Cardinality(Regs) < MaxRegs
  /\ shim' = RegisterWithRegistrar(shim, registrar)
  /\ log' = Append(log, RegEntry(registrar, "direct"))
  /\ UNCHANGED <<platform, pc, cur, wrappers, capiLog>>

\* PluginRegistrarManager::GetInstance()->GetRegistrar<T>(ref): the wrapper
\* of ref, made on first use and kept by the manager
GetRegistrar(w, ref) ==
  IF w[ref] # NoWrapper
    THEN w
    ELSE [w EXCEPT ![ref] =
            100 + Cardinality({r \in Registrars : w[r] # NoWrapper}) + 1]

\* passes the raw reference on instead of its wrapper
CApi_passes_raw(st, ref) ==
  [shim |-> RegisterWithRegistrar(st.shim, ref),
   wrappers |-> GetRegistrar(st.wrappers, ref),
   passed |-> <<ref>>]

\* registers twice
CApi_registers_twice(st, ref) ==
  LET w == GetRegistrar(st.wrappers, ref)
  IN [shim |-> RegisterWithRegistrar(
                 RegisterWithRegistrar(st.shim, w[ref]), w[ref]),
      wrappers |-> w,
      passed |-> <<w[ref], w[ref]>>]

\* The C-API entry point as a function of the state it can touch; passed
\* lists the arguments of its calls to RegisterWithRegistrar, in order.
FlutterNetworkWatcherPluginCApiRegisterWithRegistrar(st, ref) ==
  LET w == GetRegistrar(st.wrappers, ref)
  IN [shim |-> RegisterWithRegistrar(st.shim, w[ref]),
      wrappers |-> w,
      passed |-> <<w[ref]>>]

RECURSIVE RegEntries(_)
RegEntries(passed) ==
  IF passed = <<>> THEN <<>>
  ELSE <<RegEntry(Head(passed), "capi")>> \o RegEntries(Tail(passed))

CApiRegister(ref) ==
  /\ platform = "windows"
  /\ pc = "idle"
  /\ Cardinality(Regs) < MaxRegs
  /\ LET r == FlutterNetworkWatcherPluginCApiRegisterWithRegistrar(
                [shim |-> shim, wrappers |-> wrappers], ref)
     IN /\ shim' = r.shim
        /\ wrappers' = r.wrappers
        /\ log' = log \o RegEntries(r.passed)
        /\ capiLog' = Append(capiLog,
                             [ref |-> ref, wrapper |-> r.wrappers[ref],
                              passed |-> r.passed])
  /\ UNCHANGED <<platform, pc, cur>>

\* the handler entry point is invoked with a call record and its sink
Invoke(m, a) ==
  /\ pc = "idle"
  /\ Cardinality(Calls) < MaxCalls
  /\ log' = Append(log, CallEntry(m, a, "direct", "delivered"))
  /\ cur' = Len(log) + 1
  /\ pc' = EntryPc(platform)
  /\ UNCHANGED <<platform, shim, wrappers, capiLog>>

\* the host puts a call on the plugin's channel
HostSend(m, a) ==
  /\ pc = "idle"
  /\ Cardinality(Calls) < MaxCalls
  /\ log' = Append(log, CallEntry(m, a, "channel", "queued"))
  /\ UNCHANGED <<platform, shim, pc, cur, wrappers, capiLog>>

\* the host takes a queued call and looks for the channel's handler
HostDispatch(i) ==
  /\ pc = "idle"
  /\ i \in Calls
  /\ log[i].state = "queued"
  /\ IF PluginChannel \in shim.channels
       THEN /\ log' = [log EXCEPT ![i].state = "delivered"]
            /\ cur' = i
            /\ pc' = EntryPc(platform)
       ELSE /\ log' = [log EXCEPT ![i].state = "unhandled"]
            /\ UNCHANGED <<cur, pc>>
  /\ UNCHANGED <<platform, shim, wrappers, capiLog>>

\* linux method_call_cb: cast user_data, call the handler
method_call_cb ==
  /\ platform = "linux"
  /\ pc = "cb"
  /\ pc' = "handle"
  /\ UNCHANGED <<platform, shim, log, cur, wrappers, capiLog>>

\* the body of the handler, to its return
HandleCall ==
  /\ pc = "handle"
  /\ \E ok \in SinkOutcomes(platform) :
       log' = [log EXCEPT ![cur] = HandlerOf(platform, log[cur], ok)]
  /\ pc' = "idle"
  /\ cur' = 0
  /\ UNCHANGED <<platform, shim, wrappers, capiLog>>

Next ==
  \/ \E r \in Registrars : LinuxRegister(r)
  \/ \E r \in Registrars : WindowsRegister(r)
  \/ \E r \in Registrars : CApiRegister(r)
  \/ \E c \in CallInputs : Invoke(c.method, c.args)
  \/ \E c \in CallInputs : HostSend(c.method, c.args)
  \/ \E i \in Calls : HostDispatch(i)
  \/ method_call_cb
  \/ HandleCall

Spec == Init /\ [][Next]_vars

\* The platform thread runs what it has started: a queued call is
\* dispatched and a handler that was entered runs to its return.
LiveSpec ==
  /\ Spec
  /\ WF_vars(\E i \in Calls : HostDispatch(i))
  /\ WF_vars(method_call_cb)
  /\ WF_vars(HandleCall)

TypeOK ==
  /\ platform \in Platforms
  /\ pc \in {"idle", "cb", "handle"}
  /\ cur \in 0..Len(log)
  /\ \A i \in 1..Len(log) : log[i].kind \in {"register", "call"}

(* ------------------------- derived notions ----------------------------- *)
\* positions a log entry can have
Slots == 1..(MaxRegs + MaxCalls)

Returned(i) == i \in Calls /\ log[i].state = "returned"

\* a call the host sent on the plugin's channel after a registration
SentAfterRegister(i) ==
  /\ i \in Calls
  /\ log[i].via = "channel"
  /\ \E j \in Regs : j < i

AnsweredNotImplemented(i) ==
  /\ Returned(i)
  /\ log[i].writes = <<"NotImplemented">>

\* the responses written so far, call by call, in the order of the calls
RECURSIVE Responses(_)
Responses(ops) ==
  IF ops = <<>> THEN <<>>
  ELSE LET e == ops[Len(ops)]
           before == Responses(SubSeq(ops, 1, Len(ops) - 1))
       IN IF e.kind = "call" /\ e.state = "returned"
            THEN Append(before, e.writes)
            ELSE before

\* variant q run from its initial state on the operations of ops: what it
\* leaves in the shim and what it writes to the sinks of the completed calls
RECURSIVE Replay(_, _)
Replay(q, ops) ==
  IF ops = <<>> THEN [shim |-> InitShim, responses |-> <<>>]
  ELSE LET e == ops[Len(ops)]
           before == Replay(q, SubSeq(ops, 1, Len(ops) - 1))
           fresh == CallEntry(e.method, e.args, e.via, "delivered")
           reaches ==
             \/ e.via = "direct" /\ e.state = "returned"
             \/ /\ e.via = "channel"
                /\ e.state \in {"unhandled", "returned"}
                /\ PluginChannel \in before.shim.channels
       IN CASE e.kind = "register" ->
                 [before EXCEPT !.shim = RegisterOf(q, @, e.handle)]
            [] e.kind = "call" /\ reaches ->
                 [before EXCEPT !.responses =
                    Append(@, HandlerOf(q, fresh, TRUE).writes)]
            [] OTHER -> before

(* ------------------------------ claims --------------------------------- *)

\* C1: every call delivered to the handler has its reply sink written
\* exactly once, with the not-implemented status, whatever the method name
\* and the arguments: no sink ever holds two writes or a write of another
\* status, and a call the handler returned from holds exactly one.
C1_ExactlyOneNotImplemented ==
  \A i \in Calls :
    /\ Len(log[i].writes) <= 1
    /\ \A k \in 1..Len(log[i].writes) : log[i].writes[k] = "NotImplemented"
    /\ log[i].state = "returned" => log[i].writes = <<"NotImplemented">>

C1_Witness ==
  \E i \in Calls :
    /\ log[i].method = ""
    /\ AnsweredNotImplemented(i)
    /\ \E j \in Calls :
         log[j].args = "interval5" /\ AnsweredNotImplemented(j)

C3_RegisterNoEffect ==
  [][ (Len(log') > Len(log) /\ log'[Len(log')].kind = "register") =>
        /\ shim' = shim
        /\ SubSeq(log', 1, Len(log)) = log
        /\ Len(log') = Len(log) + 1
        /\ log'[Len(log')].outcome = "returned"
        /\ pc' = pc
        /\ cur' = cur
        /\ platform' = platform
        /\ (log'[Len(log')].via = "direct" =>
              wrappers' = wrappers /\ capiLog' = capiLog) ]_vars

C3_Witness ==
  \E i \in Regs, j \in Calls :
    /\ j < i
    /\ log[i].via = "direct"
    /\ log[i].handle = 2
    /\ Returned(j)

\* C4: registering is idempotent: after n >= 0 registrations, with equal or
\* different handles, the observable state is the one after a single
\* registration, which is the one after none; one more registration leaves
\* it as it is; no registration reported an error and nothing was made
\* twice.
C4_RegisterIdempotent ==
  \A r \in Registrars :
    LET once == RegisterOf(platform, InitShim, r)
    IN /\ once = InitShim
       /\ Regs # {} => shim = once
       /\ RegisterOf(platform, shim, r) = shim
       /\ Cardinality(shim.channels) <= 1
       /\ Cardinality(shim.instances) <= 1
       /\ \A i \in Regs : log[i].outcome = "returned"

C4_Witness ==
  \E i \in Regs :
    /\ i + 1 \in Regs
    /\ log[i].handle # log[i + 1].handle

\* C5: the handler never reports an error to its caller: every call it was
\* entered for returns normally, also when the reply sink reported a
\* failure for the write.
C5_NeverRaises ==
  \A i \in Calls :
    /\ log[i].outcome # "error"
    /\ log[i].state = "returned" => log[i].outcome = "returned"
    /\ log[i].sinkResult = "failed" =>
         log[i].state = "returned" /\ log[i].outcome = "returned"

C5_Witness ==
  \E i \in Calls :
    /\ log[i].sinkResult = "failed"
    /\ log[i].state = "returned"

\* C6: the shim holds no mutable state: after any interleaving of
\* registrations and calls its state is its initial state, and every
\* completed call got the same response, whatever came before it.
C6_NoMutableState ==
  /\ shim = InitShim
  /\ \A i \in Calls, j \in Calls :
       (Returned(i) /\ Returned(j)) => log[i].writes = log[j].writes

C6_Witness ==
  \E i \in Calls, j \in Calls, k \in Regs :
    /\ i < k
    /\ k < j
    /\ Returned(i)
    /\ Returned(j)
    /\ log[i].method # log[j].method

\* C7: the handler completes synchronously: whenever the thread is not
\* inside the shim, every call that was delivered to the handler has been
\* answered and returned from, and while the thread is inside the shim the
\* only unanswered delivered call is the one being handled.
C7_Synchronous ==
  /\ pc = "idle" =>
       /\ cur = 0
       /\ \A i \in Calls :
            log[i].state \in {"delivered", "returned"} =>
              log[i].state = "returned" /\ Len(log[i].writes) >= 1
  /\ \A i \in Calls :
       (log[i].state = "delivered" \/
          (log[i].state = "returned" /\ log[i].writes = <<>>)) =>
         (pc # "idle" /\ cur = i /\ log[i].state = "delivered")

C7_Witness ==
  /\ pc = "idle"
  /\ \E i \in Calls, j \in Calls :
       i # j /\ Returned(i) /\ log[j].state = "queued"

C9_CApiForwardsOnce ==
  /\ \A k \in 1..Len(capiLog) :
       /\ capiLog[k].wrapper # NoWrapper
       /\ capiLog[k].wrapper = wrappers[capiLog[k].ref]
       /\ capiLog[k].passed = <<capiLog[k].wrapper>>
  /\ \A k \in 1..Len(capiLog), l \in 1..Len(capiLog) :
       capiLog[k].ref = capiLog[l].ref =>
         capiLog[k].passed = capiLog[l].passed
  /\ Cardinality({i \in Regs : log[i].via = "capi"}) = Len(capiLog)
  /\ \A r \in Registrars :
       wrappers[r] # NoWrapper =>
         \E k \in 1..Len(capiLog) : capiLog[k].ref = r

C9_Witness ==
  \E k \in 1..Len(capiLog), l \in 1..Len(capiLog) :
    /\ k # l
    /\ capiLog[k].ref = capiLog[l].ref

\* C10: the two variants are observably equivalent: the other variant, run
\* from its initial state on the operations this variant has performed,
\* writes the same responses to the completed calls and is left with the
\* same shim state.
C10_VariantsEquivalent ==
  \A q \in Platforms \ {platform} :
    Replay(q, log) = [shim |-> shim, responses |-> Responses(log)]

C10_Witness ==
  /\ \E i \in Regs : \E j \in Calls : i < j /\ Returned(j)
  /\ \E j \in Calls : log[j].state = "unhandled"
====
